---- MODULE Spec2Model ----
(***************************************************************************)
(* Model of the gotify "webhooker" plugin (plugin.go): the Enable/Disable  *)
(* lifecycle with its persisted Storage record, and the listener started   *)
(* by Enable: a control loop (keepalive ticker, interrupt, done) and a     *)
(* reader goroutine that decodes each websocket message and posts it to    *)
(* the webhook.  log.Fatal is modelled as what it is: the process exits    *)
(* and no deferred call runs.                                              *)
(***************************************************************************)
EXTENDS Integers, Sequences, FiniteSets, TLC

\* ---------------------------------------------------------------- bounds
MaxCalls == 2       \* plugin-API calls (ValidateAndSetConfig, Enable, Disable)
MaxRelay == 1       \* messages the stream host sends under Spec
MaxFrames == 3      \* messages the stream host sends under SpecListener

\* listeners: each Enable call starts at most one
Runs == 1..MaxCalls

\* ------------------------------------------------------- values and types
Nil == "nil"                    \* Go nil error

\* Config struct; "" is the empty string, the other value any non-empty one
HostValues == {"", "ws://localhost:8080"}
TokenValues == {"", "abc"}
UrlValues == {"", "http://example.com/hook"}
Configs == [HostServer : HostValues, ClientToken : TokenValues, WebhookUrl : UrlValues]

\* Storage struct and its JSON form
Storage == [WasEnabled : BOOLEAN]
NewStorage == [WasEnabled |-> FALSE]
JsonTrue == "{\"wasEnabled\":true}"
JsonFalse == "{\"wasEnabled\":false}"
NoBytes == ""
StoredBytes == {NoBytes, JsonTrue, JsonFalse}

\* json.Marshal of a Storage whose field is not exported to JSON
MarshalNoField(s) == JsonFalse

\* json.Marshal(storage)
Marshal(s) == IF s.WasEnabled THEN JsonTrue ELSE JsonFalse

\* json.Unmarshal(storageBytes, storage) decoding nothing
UnmarshalNothing(bytes, s) == s

\* json.Unmarshal(storageBytes, storage): on a decoding error the target keeps
\* its value (the error is discarded by the caller)
Unmarshal(bytes, s) ==
    CASE bytes = JsonTrue -> [s EXCEPT !.WasEnabled = TRUE]
      [] bytes = JsonFalse -> [s EXCEPT !.WasEnabled = FALSE]
      [] OTHER -> s

\* error values returned by the plugin
ErrHost == "Please enter the correct web server"
ErrToken == "Please enter the client token"
ErrWebhook == "Please enter the correct webhook url"
ErrProbe == "Web server url or client_token is not valid"
ErrLoad == "storage load error"
ErrWrite == "websocket write error"

\* the three length checks at the head of Enable, in source order
ConfigErrorSwapped(cfg) ==
    IF cfg.ClientToken = "" THEN ErrToken
    ELSE IF cfg.HostServer = "" THEN ErrHost
    ELSE IF cfg.WebhookUrl = "" THEN ErrWebhook
    ELSE Nil

ConfigError(cfg) ==
    IF cfg.HostServer = "" THEN ErrHost
    ELSE IF cfg.ClientToken = "" THEN ErrToken
    ELSE IF cfg.WebhookUrl = "" THEN ErrWebhook
    ELSE Nil

\* the Storage value Enable / Disable marshal and save
StorageOnEnableStale == [NewStorage EXCEPT !.WasEnabled = FALSE]

StorageOnEnable == [NewStorage EXCEPT !.WasEnabled = TRUE]

StorageOnDisableStale == [NewStorage EXCEPT !.WasEnabled = TRUE]

StorageOnDisable == [NewStorage EXCEPT !.WasEnabled = FALSE]

\* ---------------------------------------------------------------- frames
\* A websocket text message: malformed JSON, or a JSON object that may omit
\* "title" and/or "message".  Absent marks an omitted key.
Absent == "<absent>"
BadFrame == [wf |-> FALSE, title |-> Absent, message |-> Absent]
\* the message variable before the first ReadMessage
NoFrame == [wf |-> FALSE, title |-> "none", message |-> "none"]
Frames == { BadFrame,
            [wf |-> TRUE, title |-> "T", message |-> "M"],
            [wf |-> TRUE, title |-> Absent, message |-> "*b*"] }

\* plugin.Message{} (only the fields the plugin consumes)
EmptyMessage == [Title |-> "", Message |-> ""]

\* json.Unmarshal(message, &incomingMsg): keys present in the JSON overwrite
\* the fields of the existing value, keys omitted leave them as they are
UnmarshalMessage(f, m) ==
    [Title |-> IF f.title = Absent THEN m.Title ELSE f.title,
     Message |-> IF f.message = Absent THEN m.Message ELSE f.message]

\* markdown.ToHTML on the message texts that occur
ToHTML(md) ==
    CASE md = "" -> ""
      [] md = "M" -> "<p>M</p>\n"
      [] md = "*b*" -> "<p><em>b</em></p>\n"

\* the WebhookPost built by SendPostToWebhook
WebhookPost(message) ==
    [username |-> message.Title, text |-> message.Message, html |-> ToHTML(message.Message)]

\* ----------------------------------------------------------------- state
VARIABLES
    alive,        \* the process is running (FALSE after log.Fatal)
    stream,       \* messages the stream host will still send
    config,       \* c.config
    enabled,      \* c.enabled
    persisted,    \* bytes held by the storage handler
    nCalls,       \* plugin-API calls made
    ret,          \* the last returned call: what it returned, what it did
    nRuns,        \* StartListener goroutines started
    ctl,          \* per listener: position of StartListener
    rd,           \* per listener: position of the reader goroutine
    ws,           \* per listener: the websocket connection
    closes,       \* per listener: ws.Close() calls
    interrupt,    \* per listener: the interrupt channel holds a signal
    closeFrames,  \* per listener: close frames written to ws
    kaAfterClose, \* per listener: a keepalive was written after a close frame
    nRecv,        \* per listener: messages ReadMessage returned
    frame,        \* per listener: the last message ReadMessage returned
    incomingMsg,  \* per listener: the incomingMsg variable
    nPosts,       \* per listener: SendPostToWebhook calls
    lastPost,     \* per listener: the last SendPostToWebhook call
    result,       \* per listener: StartListener's return value
    fatal         \* per listener: which log.Fatal it hit, if any

lifeVars == <<config, enabled, persisted, nCalls, ret>>
ctlVars == <<nRuns, ctl, ws, closes, interrupt, closeFrames, kaAfterClose, result>>
rdVars == <<rd, nRecv, frame, incomingMsg, nPosts, lastPost>>
runVars == <<ctlVars, rdVars, fatal>>
vars == <<alive, stream, lifeVars, runVars>>

\* op: the call; err: the error returned; did: the collaborators it called
\* ("probe", "start", "load", "save"); reach: whether the stream host answered
\* the probe ("yes", "no", or "n/a" without a probe); stFail: a load or save of
\* the call failed; run: the listener it started; after: the call returned
\* is a Disable and the call before it an Enable that returned nil with its
\* load and save succeeding
NoCall == [op |-> "none", err |-> Nil, did |-> {}, reach |-> "n/a", stFail |-> FALSE,
           run |-> 0, after |-> FALSE]

\* idx: which message of the connection was posted; body: the WebhookPost;
\* ok: SendPostToWebhook returned nil
NoPost == [idx |-> 0, body |-> WebhookPost(EmptyMessage), ok |-> TRUE]

\* no listener has been started
NoListener ==
    /\ nRuns = 0
    /\ ctl = [r \in Runs |-> "idle"]
    /\ rd = [r \in Runs |-> "none"]
    /\ ws = [r \in Runs |-> "none"]
    /\ closes = [r \in Runs |-> 0]
    /\ interrupt = [r \in Runs |-> FALSE]
    /\ closeFrames = [r \in Runs |-> 0]
    /\ kaAfterClose = [r \in Runs |-> FALSE]
    /\ nRecv = [r \in Runs |-> 0]
    /\ frame = [r \in Runs |-> NoFrame]
    /\ incomingMsg = [r \in Runs |-> EmptyMessage]
    /\ nPosts = [r \in Runs |-> 0]
    /\ lastPost = [r \in Runs |-> NoPost]
    /\ result = [r \in Runs |-> Nil]
    /\ fatal = [r \in Runs |-> "none"]

\* The state in which the host makes its first Enable or Disable call: the
\* instance constructed (lines 270-272), its storage handler set (lines 96-98)
\* and a configuration validated, which restored c.enabled from the stored
\* bytes (lines 109-133).
Init ==
    /\ alive = TRUE
    /\ stream = MaxRelay
    /\ config \in Configs
    /\ persisted \in StoredBytes
    /\ enabled = Unmarshal(persisted, NewStorage).WasEnabled
    /\ nCalls = 0
    /\ ret = NoCall
    /\ NoListener

Answer(reachable) == IF reachable THEN "yes" ELSE "no"

\* a plugin-API call returns err to its caller
Return(op, err, did, reach, stFail, run) ==
    /\ nCalls' = nCalls + 1
    /\ ret' = [op |-> op, err |-> err, did |-> did, reach |-> reach,
               stFail |-> stFail, run |-> run,
               after |-> (/\ op = "Disable"
                          /\ ret.op = "Enable" /\ ret.err = Nil /\ ~ret.stFail)]

\* ------------------------------------------------- ValidateAndSetConfig
\* lines 109-133: the Config struct carries no validator tags, so v.Struct
\* accepts every value; c.config is replaced, then the stored bytes are
\* loaded and unmarshalled into a new Storage to restore c.enabled
ValidateAndSetConfig(conf) ==
    /\ alive /\ nCalls < MaxCalls
    /\ config' = conf
    /\ \E loadOk \in BOOLEAN :
        IF loadOk
        THEN /\ enabled' = Unmarshal(persisted, NewStorage).WasEnabled
             /\ Return("ValidateAndSetConfig", Nil, {"load"}, "n/a", FALSE, 0)
        ELSE /\ enabled' = enabled
             /\ Return("ValidateAndSetConfig", ErrLoad, {"load"}, "n/a", TRUE, 0)
    /\ UNCHANGED <<alive, stream, persisted, runVars>>

\* ---------------------------------------------------------------- Enable
\* lines 87-94 with the dial error dropped
TestSocketNoError(reachable) == Nil

\* lines 87-94: TestSocket dials the stream URL and returns the dial error
\* (the connection it opens is dropped)
TestSocket(reachable) == IF reachable THEN Nil ELSE "dial error"

\* line 156 guarded by a check for a listener that is still running
StartListenerIfNone(r) ==
    IF \E q \in Runs : ctl[q] \in {"dial", "loop", "grace"}
    THEN UNCHANGED <<nRuns, ctl>>
    ELSE /\ nRuns' = r
         /\ ctl' = [ctl EXCEPT ![r] = "dial"]

\* line 156, go c.StartListener(serverUrl): a new listener, its interrupt
\* channel registered with signal.Notify (line 195), about to dial
StartListener(r) ==
    /\ nRuns' = r
    /\ ctl' = [ctl EXCEPT ![r] = "dial"]

\* lines 135-173.  reachable, loadOk, saveOk: what the stream host and the
\* storage handler answer during this call
Enable ==
    /\ alive /\ nCalls < MaxCalls
    /\ IF ConfigError(config) # Nil
       THEN /\ Return("Enable", ConfigError(config), {}, "n/a", FALSE, 0)
            /\ UNCHANGED <<enabled, persisted, nRuns, ctl>>
       ELSE \E reachable \in BOOLEAN :
         IF TestSocket(reachable) # Nil
         THEN /\ Return("Enable", ErrProbe, {"probe"}, Answer(reachable), FALSE, 0)
              /\ UNCHANGED <<enabled, persisted, nRuns, ctl>>
         ELSE /\ StartListener(nRuns + 1)
              /\ enabled' = TRUE
              /\ \E loadOk \in BOOLEAN :
                  IF ~loadOk
                  THEN /\ Return("Enable", ErrLoad, {"probe", "start", "load"},
                                 Answer(reachable), TRUE, nRuns + 1)
                       /\ UNCHANGED persisted
                  ELSE \E saveOk \in BOOLEAN :
                       /\ persisted' = IF saveOk THEN Marshal(StorageOnEnable)
                                                 ELSE persisted
                       /\ Return("Enable", Nil, {"probe", "start", "load", "save"},
                                 Answer(reachable), ~saveOk, nRuns + 1)
    /\ UNCHANGED <<alive, stream, config, rdVars, fatal>>
    /\ UNCHANGED <<ws, closes, interrupt, closeFrames, kaAfterClose, result>>

\* --------------------------------------------------------------- Disable
\* lines 175-191 with the running listeners told to shut down
DisableSignals ==
    /\ alive /\ nCalls < MaxCalls
    /\ enabled' = FALSE
    /\ interrupt' = [r \in Runs |-> interrupt[r] \/ ctl[r] \in {"dial", "loop"}]
    /\ \E loadOk \in BOOLEAN :
        IF ~loadOk
        THEN /\ Return("Disable", ErrLoad, {"load"}, "n/a", TRUE, 0)
             /\ UNCHANGED persisted
        ELSE \E saveOk \in BOOLEAN :
             /\ persisted' = IF saveOk THEN Marshal(StorageOnDisable) ELSE persisted
             /\ Return("Disable", Nil, {"load", "save"}, "n/a", ~saveOk, 0)
    /\ UNCHANGED <<alive, stream, config, rdVars, fatal>>
    /\ UNCHANGED <<nRuns, ctl, ws, closes, closeFrames, kaAfterClose, result>>

\* lines 175-191
Disable ==
    /\ alive /\ nCalls < MaxCalls
    /\ enabled' = FALSE
    /\ \E loadOk \in BOOLEAN :
        IF ~loadOk
        THEN /\ Return("Disable", ErrLoad, {"load"}, "n/a", TRUE, 0)
             /\ UNCHANGED persisted
        ELSE \E saveOk \in BOOLEAN :
             /\ persisted' = IF saveOk THEN Marshal(StorageOnDisable) ELSE persisted
             /\ Return("Disable", Nil, {"load", "save"}, "n/a", ~saveOk, 0)
    /\ UNCHANGED <<alive, stream, config, runVars>>

\* --------------------------------------------------------- StartListener
\* log.Fatal: the message is printed and the process exits with os.Exit(1);
\* no deferred function of any goroutine runs
LogFatal(r, why) ==
    /\ alive' = FALSE
    /\ fatal' = [fatal EXCEPT ![r] = why]

\* return from StartListener without the deferred ws.Close()
ReturnListenerNoClose(r, err) ==
    /\ ctl' = [ctl EXCEPT ![r] = "returned"]
    /\ result' = [result EXCEPT ![r] = err]
    /\ UNCHANGED <<ws, closes>>

\* return from StartListener: the deferred ticker.Stop() and ws.Close() run
ReturnListener(r, err) ==
    /\ ctl' = [ctl EXCEPT ![r] = "returned"]
    /\ result' = [result EXCEPT ![r] = err]
    /\ ws' = [ws EXCEPT ![r] = "closed"]
    /\ closes' = [closes EXCEPT ![r] = @ + 1]

\* lines 197-213: dial; on success the connection is open, the reader
\* goroutine started and the select loop entered; on failure log.Fatal
Dial(r) ==
    /\ alive /\ ctl[r] = "dial"
    /\ \E ok \in BOOLEAN :
        IF ok
        THEN /\ ctl' = [ctl EXCEPT ![r] = "loop"]
             /\ ws' = [ws EXCEPT ![r] = "open"]
             /\ rd' = [rd EXCEPT ![r] = "read"]
             /\ UNCHANGED <<alive, fatal>>
        ELSE /\ LogFatal(r, "dial")
             /\ UNCHANGED <<ctl, ws, rd>>
    /\ UNCHANGED <<stream, lifeVars, nRuns, closes, interrupt, closeFrames, kaAfterClose, result>>
    /\ UNCHANGED <<nRecv, frame, incomingMsg, nPosts, lastPost>>

\* the done channel is closed by the reader's deferred close(done), that is
\* when the reader goroutine function returns
done(r) == rd[r] = "returned"

\* cases of the select of lines 240-251 that can proceed: the ticker fires
\* every second, the other two channels as they are
ReadyLoop(r) ==
    {"ticker"} \cup (IF done(r) THEN {"done"} ELSE {})
               \cup (IF interrupt[r] THEN {"interrupt"} ELSE {})

\* ws.WriteMessage(kind, ...) with the close frame never reaching the wire
WrittenNoClose(r, kind) ==
    /\ closeFrames' = closeFrames
    /\ kaAfterClose' = [kaAfterClose EXCEPT ![r] =
                           @ \/ (kind = "keepalive" /\ closeFrames[r] > 0)]

\* ws.WriteMessage(kind, ...) succeeded
Written(r, kind) ==
    /\ closeFrames' = [closeFrames EXCEPT ![r] = IF kind = "close" THEN @ + 1 ELSE @]
    /\ kaAfterClose' = [kaAfterClose EXCEPT ![r] =
                           @ \/ (kind = "keepalive" /\ closeFrames[r] > 0)]

\* lines 239-260: one pass of the select loop; ok is whether the write of the
\* chosen case succeeds
SelectLoop(r) ==
    /\ alive /\ ctl[r] = "loop"
    /\ \E c \in ReadyLoop(r), ok \in BOOLEAN :
        CASE c = "done" ->
                /\ ok
                /\ ReturnListener(r, Nil)
                /\ UNCHANGED <<closeFrames, kaAfterClose, interrupt>>
          [] c = "ticker" ->
                IF ok
                THEN /\ Written(r, "keepalive")
                     /\ UNCHANGED <<ctl, result, ws, closes, interrupt>>
                ELSE /\ ReturnListener(r, ErrWrite)
                     /\ UNCHANGED <<closeFrames, kaAfterClose, interrupt>>
          [] c = "interrupt" ->
                /\ interrupt' = [interrupt EXCEPT ![r] = FALSE]
                /\ IF ok
                   THEN /\ Written(r, "close")
                        /\ ctl' = [ctl EXCEPT ![r] = "grace"]
                        /\ UNCHANGED <<result, ws, closes>>
                   ELSE /\ ReturnListener(r, ErrWrite)
                        /\ UNCHANGED <<closeFrames, kaAfterClose>>
    /\ UNCHANGED <<alive, stream, lifeVars, nRuns, rdVars, fatal>>

\* ReadMessage returned message f
Receive(r, f) ==
    /\ stream' = stream - 1
    /\ nRecv' = [nRecv EXCEPT ![r] = @ + 1]
    /\ frame' = [frame EXCEPT ![r] = f]

\* lines 261-265 with the waiting loop draining the connection itself
SelectGraceReads(r) ==
    /\ alive /\ ctl[r] = "grace"
    /\ stream > 0
    /\ \E f \in Frames : Receive(r, f)
    /\ UNCHANGED <<alive, lifeVars, ctlVars, rd, incomingMsg, nPosts, lastPost, fatal>>

\* lines 261-265: after the close frame, wait for done or for one second
SelectGrace(r) ==
    /\ alive /\ ctl[r] = "grace"
    /\ \E c \in {"timeout"} \cup (IF done(r) THEN {"done"} ELSE {}) :
        ReturnListener(r, Nil)
    /\ UNCHANGED <<alive, stream, lifeVars, nRuns, interrupt, closeFrames, kaAfterClose,
                   rdVars, fatal>>

\* os.Interrupt delivered to the process: signal.Notify sends on every
\* registered channel that has room (capacity 1).  Only the channels that
\* will still be received from are tracked.
Interrupt ==
    /\ alive
    /\ \E r \in Runs : ctl[r] \in {"dial", "loop"} /\ ~interrupt[r]
    /\ interrupt' = [r \in Runs |-> interrupt[r] \/ ctl[r] \in {"dial", "loop"}]
    /\ UNCHANGED <<alive, stream, lifeVars, nRuns, ctl, ws, closes, closeFrames,
                   kaAfterClose, result, rdVars, fatal>>

\* ------------------------------------------------------ reader goroutine
\* lines 217-226 with ReadMessage still returning messages once the
\* connection is closed
ReaderReadAfterClose(r) ==
    /\ alive /\ rd[r] = "read"
    /\ \/ /\ stream > 0
          /\ \E f \in Frames :
                /\ Receive(r, f)
                /\ IF f.wf
                   THEN /\ incomingMsg' = [incomingMsg EXCEPT ![r] =
                                              UnmarshalMessage(f, @)]
                        /\ rd' = [rd EXCEPT ![r] = "post"]
                        /\ UNCHANGED <<alive, fatal>>
                   ELSE /\ LogFatal(r, "decode")
                        /\ UNCHANGED <<incomingMsg, rd>>
       \/ /\ LogFatal(r, "read")
          /\ UNCHANGED <<stream, nRecv, frame, rd, incomingMsg>>
    /\ UNCHANGED <<lifeVars, ctlVars, nPosts, lastPost>>

\* lines 217-226 with the decode error only logged: falls through to the post
ReaderReadLogOnly(r) ==
    /\ alive /\ rd[r] = "read"
    /\ \/ /\ ws[r] = "open"
          /\ stream > 0
          /\ \E f \in Frames :
                /\ Receive(r, f)
                /\ incomingMsg' = [incomingMsg EXCEPT ![r] =
                                      IF f.wf THEN UnmarshalMessage(f, @) ELSE @]
                /\ rd' = [rd EXCEPT ![r] = "post"]
                /\ UNCHANGED <<alive, fatal>>
       \/ /\ LogFatal(r, "read")
          /\ UNCHANGED <<stream, nRecv, frame, rd, incomingMsg>>
    /\ UNCHANGED <<lifeVars, ctlVars, nPosts, lastPost>>

\* lines 217-226: ws.ReadMessage() returns a message or an error (always an
\* error once the connection is closed); a read error is log.Fatal.  The
\* message is decoded with json.Unmarshal(message, &incomingMsg); a decode
\* error is log.Fatal
ReaderRead(r) ==
    /\ alive /\ rd[r] = "read"
    /\ \/ /\ ws[r] = "open"
          /\ stream > 0
          /\ \E f \in Frames :
                /\ Receive(r, f)
                /\ IF f.wf
                   THEN /\ incomingMsg' = [incomingMsg EXCEPT ![r] =
                                              UnmarshalMessage(f, @)]
                        /\ rd' = [rd EXCEPT ![r] = "post"]
                        /\ UNCHANGED <<alive, fatal>>
                   ELSE /\ LogFatal(r, "decode")
                        /\ UNCHANGED <<incomingMsg, rd>>
       \/ /\ LogFatal(r, "read")
          /\ UNCHANGED <<stream, nRecv, frame, rd, incomingMsg>>
    /\ UNCHANGED <<lifeVars, ctlVars, nPosts, lastPost>>

\* SendPostToWebhook was called for the message just decoded and returned
\* nil (ok) or an error
Posted(r, ok) ==
    /\ nPosts' = [nPosts EXCEPT ![r] = @ + 1]
    /\ lastPost' = [lastPost EXCEPT ![r] =
          [idx |-> nRecv[r], body |-> WebhookPost(incomingMsg[r]), ok |-> ok]]

\* lines 228-232 with a failed post ending the process like the other errors
ReaderPostFatal(r) ==
    /\ alive /\ rd[r] = "post"
    /\ \E ok \in BOOLEAN :
        /\ Posted(r, ok)
        /\ IF ok
           THEN /\ rd' = [rd EXCEPT ![r] = "read"]
                /\ UNCHANGED <<alive, fatal>>
           ELSE /\ LogFatal(r, "post")
                /\ UNCHANGED rd
    /\ UNCHANGED <<stream, lifeVars, ctlVars, nRecv, frame, incomingMsg>>

\* lines 228-232 and 53-85: SendPostToWebhook(c.config.WebhookUrl, incomingMsg)
\* posts the WebhookPost once; its error is logged and the loop goes on
ReaderPost(r) ==
    /\ alive /\ rd[r] = "post"
    /\ \E ok \in BOOLEAN : Posted(r, ok)
    /\ rd' = [rd EXCEPT ![r] = "read"]
    /\ UNCHANGED <<alive, stream, lifeVars, ctlVars, nRecv, frame, incomingMsg, fatal>>

\* --------------------------------------------------------- specification
Next ==
    \/ \E conf \in Configs : ValidateAndSetConfig(conf)
    \/ Enable
    \/ Disable
    \/ Interrupt
    \/ \E r \in Runs : Dial(r)
    \/ \E r \in Runs : SelectLoop(r)
    \/ \E r \in Runs : SelectGrace(r)
    \/ \E r \in Runs : ReaderRead(r)
    \/ \E r \in Runs : ReaderPost(r)

Spec == Init /\ [][Next]_vars

\* One listener on its own.  The state in which Enable has just returned nil
\* (lines 135-173): complete configuration, probe answered, the listener
\* started at line 156 and not yet dialled, c.enabled set, the Storage loaded
\* and saved.
CompleteConfig ==
    [HostServer |-> "ws://localhost:8080", ClientToken |-> "abc",
     WebhookUrl |-> "http://example.com/hook"]

OneListener ==
    /\ alive = TRUE
    /\ stream = MaxFrames
    /\ config = CompleteConfig
    /\ persisted = Marshal(StorageOnEnable)
    /\ enabled = TRUE
    /\ ret = [op |-> "Enable", err |-> Nil, did |-> {"probe", "start", "load", "save"},
              reach |-> "yes", stFail |-> FALSE, run |-> 1, after |-> FALSE]
    /\ nRuns = 1
    /\ ctl = [r \in Runs |-> IF r = 1 THEN "dial" ELSE "idle"]
    /\ rd = [r \in Runs |-> "none"]
    /\ ws = [r \in Runs |-> "none"]
    /\ closes = [r \in Runs |-> 0]
    /\ interrupt = [r \in Runs |-> FALSE]
    /\ closeFrames = [r \in Runs |-> 0]
    /\ kaAfterClose = [r \in Runs |-> FALSE]
    /\ nRecv = [r \in Runs |-> 0]
    /\ frame = [r \in Runs |-> NoFrame]
    /\ incomingMsg = [r \in Runs |-> EmptyMessage]
    /\ nPosts = [r \in Runs |-> 0]
    /\ lastPost = [r \in Runs |-> NoPost]
    /\ result = [r \in Runs |-> Nil]
    /\ fatal = [r \in Runs |-> "none"]

\* the steps of the listener and the signal; the host makes no further call
NextListener ==
    \/ Interrupt
    \/ \E r \in Runs : Dial(r)
    \/ \E r \in Runs : SelectLoop(r)
    \/ \E r \in Runs : SelectGrace(r)
    \/ \E r \in Runs : ReaderRead(r)
    \/ \E r \in Runs : ReaderPost(r)

InitListener == OneListener /\ nCalls = 1

SpecListener == InitListener /\ [][NextListener]_vars

\* The same listener with the host about to make its last call: every step
\* of Next, from the state in which an Enable has returned nil
InitSecond == OneListener /\ nCalls = MaxCalls - 1

SpecSecond == InitSecond /\ [][Next]_vars

TypeOK ==
    /\ alive \in BOOLEAN
    /\ stream \in 0..MaxFrames + MaxRelay
    /\ config \in Configs
    /\ enabled \in BOOLEAN
    /\ persisted \in StoredBytes
    /\ nCalls \in 0..MaxCalls
    /\ nRuns \in 0..MaxCalls
    /\ \A r \in Runs :
        /\ ctl[r] \in {"idle", "dial", "loop", "grace", "returned"}
        /\ rd[r] \in {"none", "read", "post"}
        /\ ws[r] \in {"none", "open", "closed"}
        /\ closes[r] \in 0..1
        /\ closeFrames[r] \in 0..1
        /\ nRecv[r] \in 0..MaxFrames + MaxRelay
        /\ nPosts[r] \in 0..nRecv[r]
        /\ frame[r] \in Frames \cup {NoFrame}

\* ------------------------------------------------------ states of a run
Connecting(r) == ctl[r] = "dial"
Connected(r) == ctl[r] = "loop"
Closing(r) == ctl[r] = "grace"
Closed(r) == ctl[r] = "returned"
\* the run is over: StartListener returned, or the process exited under it
RunOver(r) == ws[r] # "none" /\ (Closed(r) \/ ~alive)

\* this step is a return of Enable / of Disable
EnableStep == nCalls' = nCalls + 1 /\ ret'.op = "Enable"
DisableStep == nCalls' = nCalls + 1 /\ ret'.op = "Disable"

\* --------------------------------------------------------------- claims

\* C1: a shutdown signal sent while Connected leads to exactly one close
\* frame written, no keepalive written after it, and the connection closed
\* exactly once, wherever the reader is.  Stated on the runs that are over
\* and have written their close frame: the connection was closed exactly once.
C1_ShutdownClosesOnce ==
    \A r \in Runs :
        (RunOver(r) /\ closeFrames[r] >= 1) =>
            /\ closeFrames[r] = 1
            /\ ~kaAfterClose[r]
            /\ closes[r] = 1

\* C2: every run that reached Connected closes its connection exactly once
\* on every way out: a run that is over has closed it once, and no
\* connection is closed twice.
C2_HandleClosedOnce ==
    \A r \in Runs :
        /\ closes[r] <= 1
        /\ RunOver(r) => closes[r] = 1

\* C3: when message k of a run fails to decode (the earlier ones being
\* well-formed), exactly the messages before k have been posted, each once
\* and in arrival order, nothing is posted for k, and nothing is read after k.
C3_DecodeErrorStopsReader ==
    \A r \in Runs :
        /\ nPosts[r] <= nRecv[r] /\ nRecv[r] <= nPosts[r] + 1
        /\ nPosts[r] > 0 => lastPost[r].idx = nPosts[r]
        /\ (nRecv[r] > 0 /\ ~frame[r].wf) =>
              /\ fatal[r] = "decode" /\ ~alive
              /\ nPosts[r] = nRecv[r] - 1

C3_Witness ==
    \E r \in Runs :
        /\ nRecv[r] = 2 /\ ~frame[r].wf
        /\ fatal[r] = "decode"
        /\ nPosts[r] = 1 /\ lastPost[r].idx = 1

\* the payload the message alone determines: a key the message omits is the
\* empty string
FrameTitle(f) == IF f.title = Absent THEN "" ELSE f.title
FrameMessage(f) == IF f.message = Absent THEN "" ELSE f.message

\* C4: every post carries username = title, text = message and
\* html = render(message) of the message that triggered it, and nothing of
\* the messages received before it.
C4_PayloadFromFrameOnly ==
    \A r \in Runs :
        (nPosts[r] > 0 /\ lastPost[r].idx = nRecv[r] /\ frame[r].wf) =>
            /\ lastPost[r].body.username = FrameTitle(frame[r])
            /\ lastPost[r].body.text = FrameMessage(frame[r])
            /\ lastPost[r].body.html = ToHTML(FrameMessage(frame[r]))

\* C5: a failed post neither ends the reader nor closes the listener: the
\* reader goes back to reading, the process and the connection are as they
\* were, and no message is posted twice.
C5_ForwardFailureGoesOn ==
    [][\A r \in Runs :
          (nPosts'[r] # nPosts[r]) =>
              /\ nPosts'[r] = nPosts[r] + 1
              /\ lastPost'[r].idx = nRecv[r]
              /\ nPosts'[r] = nRecv[r]
              /\ ~lastPost'[r].ok =>
                    /\ rd'[r] = "read"
                    /\ alive'
                    /\ fatal'[r] = "none"
                    /\ ctl'[r] = ctl[r]
                    /\ ws'[r] = ws[r]
                    /\ closes'[r] = closes[r]]_vars

C5_Witness ==
    \E r \in Runs :
        /\ nPosts[r] = 1 /\ ~lastPost[r].ok
        /\ nRecv[r] = 2 /\ frame[r].wf /\ rd[r] = "post"
        /\ Connected(r)

\* C6: Enable returning nil and then, as the next call, Disable, with the
\* storage handler loading and saving, leaves {"wasEnabled":false} stored and
\* c.enabled false, whatever was stored before.
C6_EnableThenDisable ==
    (ret.op = "Disable" /\ ret.after /\ ~ret.stFail) =>
        /\ ret.err = Nil
        /\ persisted = JsonFalse
        /\ enabled = FALSE

C6_Witness ==
    /\ alive /\ ret.op = "Disable" /\ ret.after /\ ~ret.stFail
    /\ persisted = JsonFalse
    /\ \E r \in Runs : Connected(r)

\* the error that names a field
NamesField(err) ==
    CASE err = ErrHost -> "HostServer"
      [] err = ErrToken -> "ClientToken"
      [] err = ErrWebhook -> "WebhookUrl"
      [] OTHER -> "none"

\* C7: with HostServer, ClientToken or WebhookUrl empty, Enable returns the
\* error naming the first empty one in that order and changes nothing: no
\* probe, no listener, c.enabled and the stored bytes as before.
C7_ConfigIncomplete ==
    [][(/\ EnableStep
        /\ (config.HostServer = "" \/ config.ClientToken = "" \/ config.WebhookUrl = ""))
       => (/\ NamesField(ret'.err) # "none"
           /\ config[NamesField(ret'.err)] = ""
           /\ (NamesField(ret'.err) = "ClientToken" => config.HostServer # "")
           /\ (NamesField(ret'.err) = "WebhookUrl"
                 => (config.HostServer # "" /\ config.ClientToken # ""))
           /\ ret'.did = {}
           /\ UNCHANGED <<config, enabled, persisted, runVars>>)]_vars

C7_Witness ==
    /\ alive /\ ret.op = "Enable" /\ ret.err = ErrToken
    /\ config.ClientToken = "" /\ config.WebhookUrl = ""
    /\ enabled

\* C8: with a complete configuration and the probe failing, Enable returns
\* the unreachable error and changes nothing: no listener is started,
\* c.enabled keeps its value, the storage handler is neither loaded nor saved.
C8_ProbeFails ==
    [][(EnableStep /\ ret'.reach = "no")
       => (/\ ret'.err = ErrProbe
           /\ ret'.did = {"probe"}
           /\ ret'.run = 0
           /\ UNCHANGED <<config, enabled, persisted, runVars>>)]_vars

C8_Witness ==
    /\ alive /\ ret.op = "Enable" /\ ret.reach = "no"
    /\ enabled
    /\ persisted = JsonTrue

\* C9 as stated: after Enable returned nil (storage working), the stored
\* bytes are {"wasEnabled":true}, c.enabled is true and the listener that
\* Enable started is connecting or Connected: never enabled without one.
C9_EnabledMeansConnected ==
    (alive /\ ret.op = "Enable" /\ ret.err = Nil /\ ~ret.stFail) =>
        /\ persisted = JsonTrue
        /\ enabled
        /\ (Connecting(ret.run) \/ Connected(ret.run))

\* C9 amended: with a complete configuration and the probe succeeding, Enable
\* starts exactly one listener and sets c.enabled; it returns nil unless the
\* load fails, and {"wasEnabled":true} is stored when the save succeeds.  The
\* listener is not kept Connected: it may have returned while c.enabled is
\* still true.
C9_EnableStartsListener ==
    [][(EnableStep /\ ret'.reach = "yes")
       => (/\ enabled'
           /\ nRuns' = nRuns + 1
           /\ ret'.run = nRuns'
           /\ ctl'[ret'.run] = "dial"
           /\ \A r \in Runs \ {ret'.run} : ctl'[r] = ctl[r]
           /\ (ret'.err = Nil <=> "save" \in ret'.did)
           /\ ("load" \in ret'.did)
           /\ (("save" \in ret'.did /\ ~ret'.stFail) => persisted' = JsonTrue))]_vars

C9_Witness ==
    /\ alive /\ ret.op = "Enable" /\ ret.err = Nil /\ ~ret.stFail
    /\ enabled /\ persisted = JsonTrue
    /\ Closed(ret.run)

\* C10: a failing load or save during Enable or Disable makes the call
\* return an error; after a failed load in Enable the listener is started
\* and c.enabled true.
C10_StorageFailureReturned ==
    (ret.op \in {"Enable", "Disable"} /\ ret.stFail) =>
        /\ ret.err # Nil
        /\ (ret.op = "Enable" => (enabled /\ ret.run # 0 /\ ~(ctl[ret.run] = "idle")))

\* this step is a return of ValidateAndSetConfig
ValidateStep == nCalls' = nCalls + 1 /\ ret'.op = "ValidateAndSetConfig"

\* C11: with {"wasEnabled":b} stored and the load succeeding,
\* ValidateAndSetConfig sets c.enabled to b and returns nil; it calls the
\* storage handler's Load only (no probe, no listener started, no save) and
\* leaves the stored bytes and every listener as they were.
C11_RestoreRoundTrip ==
    [][(ValidateStep /\ ~ret'.stFail)
       => (/\ \A b \in BOOLEAN :
                persisted = Marshal([WasEnabled |-> b]) => enabled' = b
           /\ ret'.err = Nil
           /\ ret'.did = {"load"}
           /\ ret'.run = 0
           /\ UNCHANGED <<persisted, runVars>>)]_vars

\* restored to true by the second call, with no listener ever started
C11_Witness ==
    /\ alive /\ ret.op = "ValidateAndSetConfig" /\ ret.err = Nil
    /\ nCalls = 2
    /\ persisted = JsonTrue /\ enabled
    /\ nRuns = 0

\* C12: an error inside a listener (connect, read, decode, post or keepalive
\* write failure) ends that listener only: the process goes on, so Enable,
\* Disable and ValidateAndSetConfig can still be called and the other
\* listeners still run.  Stated on the connect, read and decode errors: after
\* one of them the process is still running.
C12_ListenerErrorIsLocal ==
    \A r \in Runs : fatal[r] # "none" => alive

\* this step runs the deferred ws.Close() of listener r
ClosesHandle(r) == closes'[r] # closes[r]
\* this step takes the signal from listener r's interrupt channel
TakesInterrupt(r) == interrupt[r] /\ ~interrupt'[r]

\* C13 as stated: once the shutdown of a run has begun (its signal taken),
\* the connection is closed only after the close frame was written and the
\* wait for done or for the one-second timeout is over, also when the write
\* of the close frame fails.
C13_CloseAfterFrameAndWait ==
    [][\A r \in Runs :
          (ClosesHandle(r) /\ (TakesInterrupt(r) \/ Closing(r)))
              => (Closing(r) /\ closeFrames[r] = 1)]_vars

\* C13 amended: a connection is closed from the select loop or from the wait
\* only.  Closed from the wait, the close frame had been written before and
\* StartListener returns nil.  Closed by the step that takes the signal, the
\* write of the close frame failed: no close frame was written, there is no
\* wait, and StartListener returns the write error.  While the wait lasts the
\* connection stays open.
C13_CloseAfterFrameOrWriteError ==
    [][\A r \in Runs :
          /\ ClosesHandle(r) =>
                /\ closes'[r] = closes[r] + 1
                /\ Connected(r) \/ Closing(r)
                /\ Closing(r) => (closeFrames[r] = 1 /\ result'[r] = Nil)
                /\ TakesInterrupt(r) =>
                      (closeFrames'[r] = 0 /\ result'[r] = ErrWrite)
          /\ Closing(r)' => (closeFrames'[r] = 1 /\ ws'[r] = "open" /\ closes'[r] = 0)
      ]_vars

\* closed after the close frame and the wait, the reader still running
C13_Witness ==
    \E r \in Runs :
        /\ alive /\ Closed(r)
        /\ closeFrames[r] = 1 /\ closes[r] = 1 /\ result[r] = Nil
        /\ rd[r] = "read"

\* this step leaves the select loop of listener r on the ticker case: the
\* loop is left on done, on a failed keepalive write, or on the signal
KeepaliveFails(r) ==
    Connected(r) /\ ctl'[r] # ctl[r] /\ ~TakesInterrupt(r) /\ ~done(r)

\* C14: a failed keepalive write while Connected ends the run at once:
\* StartListener returns the write error, the connection is closed (once), no
\* close frame is written and there is no wait; a listener that has returned
\* writes nothing more.
C14_KeepaliveFailureCloses ==
    [][\A r \in Runs :
          /\ KeepaliveFails(r) =>
                /\ Closed(r)'
                /\ result'[r] = ErrWrite
                /\ closeFrames'[r] = 0
                /\ ws'[r] = "closed" /\ closes'[r] = closes[r] + 1
                /\ interrupt'[r] = interrupt[r]
          /\ Closed(r) =>
                /\ Closed(r)'
                /\ closeFrames'[r] = closeFrames[r]
                /\ kaAfterClose'[r] = kaAfterClose[r]
                /\ result'[r] = result[r]
                /\ closes'[r] = closes[r]
      ]_vars

\* returned on a keepalive failure with a signal still waiting in the channel
C14_Witness ==
    \E r \in Runs :
        /\ alive /\ Closed(r)
        /\ result[r] = ErrWrite
        /\ interrupt[r]
        /\ closeFrames[r] = 0 /\ closes[r] = 1 /\ ws[r] = "closed"

\* the reader goroutine of listener r has stopped on a read or decode error
ReaderStopped(r) == fatal[r] \in {"read", "decode"}

\* C15: when the reader stops while the listener is Connected, done is
\* closed (once) and the select loop, scheduled fairly, returns through its
\* done case and closes the connection without a close frame.  Stated so that
\* a finite run refutes it: a reader that has stopped has closed done, and
\* the process is running for the select loop to see it.
C15_ReaderStopSignalled ==
    \A r \in Runs : ReaderStopped(r) => (done(r) /\ alive)

\* this step is a ws.ReadMessage() of listener r returning (a message or an
\* error); a write on its connection that left a trace (a close frame
\* written, a write that failed)
ReadsHandle(r) ==
    nRecv'[r] # nRecv[r] \/ (fatal'[r] = "read" /\ fatal[r] # "read")
WritesHandle(r) ==
    \/ closeFrames'[r] # closeFrames[r]
    \/ kaAfterClose'[r] # kaAfterClose[r]
    \/ (result'[r] = ErrWrite /\ result[r] # ErrWrite)

\* C16: a connection is written by its select loop only and read by its
\* reader goroutine only: every read is a step of the reader standing at
\* ReadMessage, in which the select loop does not move and nothing is
\* written; every write is a step of the select loop, in which the reader
\* does not move and nothing is read; one step is one read or one write.
C16_OneWriterOneReader ==
    [][\A r \in Runs :
          /\ ReadsHandle(r) =>
                /\ rd[r] = "read"
                /\ rd'[r] # rd[r] \/ ~alive'
                /\ ctl'[r] = ctl[r]
                /\ ~WritesHandle(r)
                /\ nRecv'[r] \in {nRecv[r], nRecv[r] + 1}
                /\ \A q \in Runs \ {r} : ~ReadsHandle(q)
          /\ WritesHandle(r) =>
                /\ Connected(r)
                /\ rd'[r] = rd[r] /\ alive'
                /\ ~ReadsHandle(r)
                /\ closeFrames'[r] \in {closeFrames[r], closeFrames[r] + 1}
                /\ \A q \in Runs \ {r} : ~WritesHandle(q)
      ]_vars

\* the reader has read and is back in ReadMessage, the loop has written the
\* close frame on the same connection
C16_Witness ==
    \E r \in Runs :
        /\ alive /\ ws[r] = "open"
        /\ nRecv[r] >= 1 /\ rd[r] = "read"
        /\ closeFrames[r] = 1 /\ Closing(r)

\* C17: Disable does not signal the listener: a Disable call leaves every
\* listener, its interrupt channel and its connection as they were, so the
\* listener that an Enable started goes on relaying with c.enabled false and
\* {"wasEnabled":false} stored.
C17_DisableLeavesListener ==
    [][DisableStep => UNCHANGED <<alive, stream, runVars>>]_vars

\* Enable, then Disable, both with the storage working; the listener is
\* Connected and its reader is about to post a message
C17_Witness ==
    /\ alive /\ ret.op = "Disable" /\ ret.after /\ ~ret.stFail
    /\ ~enabled /\ persisted = JsonFalse
    /\ \E r \in Runs :
          /\ Connected(r) /\ ws[r] = "open"
          /\ rd[r] = "post" /\ nRecv[r] = 1 /\ nPosts[r] = 0

\* the listener is running: dialling, Connected or Closing
Active(r) == Connecting(r) \/ Connected(r) \/ Closing(r)

\* C18: Enable does not look for a running listener: an Enable whose probe
\* is answered while an earlier listener is Connected or Closing starts one
\* more listener, which will dial a connection of its own, and leaves the
\* earlier listeners as they are; from then on two listeners are running.
C18_SecondEnableSecondListener ==
    [][(/\ EnableStep /\ ret'.reach = "yes"
        /\ \E q \in Runs : Connected(q) \/ Closing(q))
       => (/\ nRuns' = nRuns + 1
           /\ ctl'[nRuns'] = "dial" /\ ws'[nRuns'] = "none"
           /\ \A q \in Runs : Active(q) => Active(q)'
           /\ \E q \in Runs : q # nRuns' /\ Active(q)'
           /\ UNCHANGED <<alive, stream, ws, closes, interrupt, closeFrames,
                          kaAfterClose, result, rdVars, fatal>>)]_vars

\* two listeners Connected at once, each on its own connection, each having
\* posted the same message once
C18_Witness ==
    \E r, q \in Runs :
        /\ r # q /\ alive
        /\ Connected(r) /\ Connected(q)
        /\ ws[r] = "open" /\ ws[q] = "open"
        /\ nRecv[r] = 1 /\ nRecv[q] = 1 /\ frame[r] = frame[q]
        /\ nPosts[r] = 1 /\ nPosts[q] = 1
        /\ lastPost[r].body = lastPost[q].body

\* the wasEnabled value that a restore reads from the stored bytes
StoredWasEnabled(bytes) == Unmarshal(bytes, NewStorage).WasEnabled

\* C19 as stated: between calls, c.enabled equals the stored wasEnabled
\* value, after every Enable, Disable and ValidateAndSetConfig that has
\* returned, nil or an error, whatever loads and saves failed.
C19_FlagEqualsStored ==
    enabled = StoredWasEnabled(persisted)

\* C19 amended: a call that does not reach the storage handler leaves
\* c.enabled and the stored bytes as they were; a call whose load and save
\* succeed leaves c.enabled equal to the stored wasEnabled value.  After a
\* call whose load or save failed they may differ.
C19_FlagEqualsStoredUnlessFailure ==
    [][(nCalls' = nCalls + 1)
       => IF "load" \in ret'.did
          THEN ~ret'.stFail => enabled' = StoredWasEnabled(persisted')
          ELSE UNCHANGED <<enabled, persisted>>]_vars

\* the second call, an Enable with the storage working, after a first call
\* that started no listener
C19_Witness ==
    /\ alive /\ nCalls = 2 /\ nRuns = 1
    /\ ret.op = "Enable" /\ ret.err = Nil /\ ~ret.stFail
    /\ enabled /\ StoredWasEnabled(persisted)

\* C20 as stated: once the connection of a listener is closed, its reader
\* reads no further message and posts nothing more, under every interleaving.
C20_NothingAfterClose ==
    [][\A r \in Runs :
          ws[r] = "closed" =>
              (nRecv'[r] = nRecv[r] /\ nPosts'[r] = nPosts[r])]_vars

\* C20 amended: once the connection is closed the reader reads no further
\* message; it posts at most the one message that ReadMessage had returned
\* before the close and that it had not posted yet, and a reader standing at
\* ReadMessage never gets past it again.
C20_OnlyInFlightAfterClose ==
    [][\A r \in Runs :
          ws[r] = "closed" =>
              /\ nRecv'[r] = nRecv[r]
              /\ frame'[r] = frame[r] /\ incomingMsg'[r] = incomingMsg[r]
              /\ nPosts'[r] # nPosts[r] =>
                    /\ rd[r] = "post"
                    /\ nPosts[r] = nRecv[r] - 1
                    /\ nPosts'[r] = nRecv[r]
                    /\ lastPost'[r].idx = nRecv[r]
              /\ rd[r] = "read" => rd'[r] = "read"]_vars

\* the wait timed out and the connection is closed while the reader holds a
\* message it has not posted yet
C20_Witness ==
    \E r \in Runs :
        /\ alive /\ Closed(r) /\ ws[r] = "closed"
        /\ closeFrames[r] = 1 /\ result[r] = Nil
        /\ rd[r] = "post" /\ nPosts[r] = nRecv[r] - 1

====
